---- MODULE Spec2Model ----
(***************************************************************************)
(* Orchestration logic of the conversational avatar widget, in its three   *)
(* variants:                                                               *)
(*   "futuristic"  AvatarWidgetFuturistic  (components/AvatarWidget.tsx)   *)
(*   "walking"     AvatarWidget with handleSendMessage / playSpeech        *)
(*   "minimal"     AvatarWidget with handleSend / callBackend (part_000)   *)
(* One widget instance is mounted per behaviour; Init picks the variant    *)
(* and the configuration (endpoint configured or not, host capabilities).  *)
(*                                                                         *)
(* React semantics kept by the model: an event handler or an async         *)
(* continuation reads the state of the render that created its closure;    *)
(* functional updaters (setX(p => ...)) read the current state.            *)
(***************************************************************************)
EXTENDS Naturals, Sequences, FiniteSets

VARIABLES
    widget,         \* which variant is mounted
    apiUrl,         \* NEXT_PUBLIC_API_URL of the build ("" when not set)
    mockMode,       \* useState(!API_URL): fixed at mount
    speechSupported,\* host exposes SpeechRecognition
    messages,       \* futuristic / minimal: Message[]
    history,        \* walking: Array<{role, content}>
    input,          \* futuristic: input; minimal: userInput
    composer,       \* walking: value of the uncontrolled composer <input>
    typing,         \* futuristic: typing; minimal: isTyping
    recommended,    \* futuristic: recommended; minimal: recommendedProducts
    lastReply,      \* walking: lastReply
    videoUrl,       \* futuristic: videoUrl; minimal: avatarVideoUrl
    open,           \* futuristic / walking: open; minimal: !isMinimized
    muted,
    selectedMascot,
    listening,
    sessions,       \* recognition sessions started and not yet ended
    calls,          \* submissions whose reply has not been processed yet
    playing,        \* walking: play() promises of playSpeech not yet settled
    outputs,        \* walking: per submission, what playSpeech started for its reply
    nextSub,        \* number of the next submission (initiation order)
    issued,         \* per submission: gateway calls issued
    appended,       \* per submission: assistant turns appended
    blanks,         \* empty / whitespace-only submissions handled so far
    voiceMode,      \* futuristic: voiceMode
    sounding,       \* utterances started and not stopped by the widget (how
                    \* long a clip or an utterance lasts is up to the host)
    alerts,         \* alert() dialogs raised so far
    storage,        \* localStorage: the items "avatar.open", ".muted", ".mascot", ".voiceMode"
    mounts,         \* how many times the component has been mounted
    now,            \* Date.now(), in milliseconds since the first mount
    ids             \* futuristic / minimal: ids[i] is the id of messages[i]

vars == <<widget, apiUrl, mockMode, speechSupported, messages, history, input, composer,
          typing, recommended, lastReply, videoUrl, open, muted, selectedMascot,
          listening, sessions, calls, playing, outputs, nextSub, issued,
          appended, blanks, voiceMode, sounding, alerts, storage, mounts,
          now, ids>>

(***************************************************************************)
(* Bounds                                                                  *)
(***************************************************************************)
MaxSubs == 2
MaxSessions == 2
MaxBlanks == 1
MaxCart == 1
MaxAlerts == 1
MaxMounts == 2
MaxNow == 3

Subs == 1..MaxSubs

(***************************************************************************)
(* Text. A string is a sequence of tokens; " " is a whitespace character.  *)
(***************************************************************************)
Typed == {<<" ", "hi">>}
Transcripts == {<<" ">>, <<"hi", " ">>}

IsSpace(c) == c = " "

RECURSIVE TrimStart(_)
TrimStart(s) == IF s # <<>> /\ IsSpace(Head(s)) THEN TrimStart(Tail(s)) ELSE s

RECURSIVE TrimEnd(_)
TrimEnd(s) ==
    IF s # <<>> /\ IsSpace(s[Len(s)]) THEN TrimEnd(SubSeq(s, 1, Len(s) - 1)) ELSE s

\* Variant: the text is taken as it is, without trim().
TrimNothing(s) == s

Trim(s) == TrimEnd(TrimStart(s))

IsPrefix(s, t) == Len(s) <= Len(t) /\ SubSeq(t, 1, Len(s)) = s

(***************************************************************************)
(* Data                                                                    *)
(***************************************************************************)
Widgets == {"futuristic", "walking", "minimal"}

\* process.env.NEXT_PUBLIC_API_URL: not set, or the url of an endpoint.
NoUrl == ""
SomeUrl == "https://shop.example/v1/chat"

\* part_000: API_URL = process.env.NEXT_PUBLIC_API_URL || <the default url>.
DefaultUrlM == "https://api.academictechnexus.com/v1/chat"

\* const API_URL of widget w in a build whose NEXT_PUBLIC_API_URL is env.
API_URL(w, env) == IF w = "minimal" /\ env = NoUrl THEN DefaultUrlM ELSE env

\* MASCOTS / MASCOT_ASSETS: five entries; the selector offers all of them.
Mascots == <<"sunny", "bubbles", "pixel", "flare", "orbit">>

\* The mascots a user picks in the model.
MascotChoices == {Mascots[1], Mascots[2]}

\* A turn of the log. sub is the number of the submission it belongs to (0 for
\* the greeting and for add-to-cart confirmations); it is bookkeeping only.
Msg(sender, text, sub) == [sender |-> sender, text |-> text, sub |-> sub]

\* An id: `${tag}-${Date.now()}` in the futuristic widget; in the minimal
\* widget the number Date.now() (+ 1), tag "ms", or the literal 1 of the
\* greeting, tag "literal".
Stamp(tag, t) == [tag |-> tag, t |-> t]

WelcomeF == Msg("assistant", <<"Hello - I'm your AI shopping avatar.">>, 0)
WelcomeM == Msg("assistant", <<"Hello! I'm here to help if you need anything.">>, 0)

ApologyF == <<"Sorry, I couldn't reach the server.">>
ApologyM == <<"Sorry, something went wrong.">>
ApologyW ==
    <<"Sorry, I couldn't reach the server. Running in demo mode. Please check your NEXT_PUBLIC_API_URL.">>
NoResponseF == <<"No response">>
NoAnswerM == <<"No answer.">>

\* A product card; from is the submission whose reply carried it.
Product(title, price, sub) == [title |-> title, price |-> price, from |-> sub]

\* A response body of the live endpoint (2xx, parsable): text is "" or absent
\* when <<>>; a url or the product list is present or not.
Body(text, speech, video, products) ==
    [text |-> text, speech_url |-> speech, avatar_video_url |-> video,
     recommended_products |-> products]

\* The bodies the endpoint answers with in the model.
Bodies ==
    {Body(<<>>, FALSE, FALSE, FALSE),
     Body(<<"reply">>, FALSE, TRUE, TRUE),
     Body(<<"reply">>, TRUE, TRUE, TRUE)}

\* No usable body: the request rejected, or the status or the JSON was bad.
NoBody ==
    [text |-> <<>>, speech_url |-> FALSE, avatar_video_url |-> FALSE,
     recommended_products |-> FALSE]

\* lastReply === null.
NoReply ==
    [text |-> <<>>, speech_url |-> FALSE, avatar_video_url |-> FALSE,
     recommended_products |-> <<>>, from |-> 0]

\* What a gateway call can end in.
Outcomes ==
    {[kind |-> "ok", body |-> b] : b \in Bodies}
        \cup {[kind |-> k, body |-> NoBody] : k \in {"non2xx", "reject", "unparsable"}}

ServerProducts(sub) == <<Product("Server Product", "$1", sub)>>

BodyProducts(body, sub) ==
    IF body.recommended_products THEN ServerProducts(sub) ELSE <<>>

BodyVideo(body, sub) == IF body.avatar_video_url THEN sub ELSE 0

\* A play() promise that has not settled yet; text is the reply text its catch
\* handler hands to speech synthesis.
Play(sub, chan, hasVideo, text) ==
    [sub |-> sub, chan |-> chan, hasVideo |-> hasVideo, text |-> text]

\* An utterance: the audio clip or the video of a reply playing, or the text of
\* a reply spoken or queued in window.speechSynthesis.
Utter(sub, chan, text) == [sub |-> sub, chan |-> chan, text |-> text]

(***************************************************************************)
(* Futuristic widget: helpers                                              *)
(***************************************************************************)
\* callBackend / mockReply speak only if (voiceMode === "voice" && !muted), with
\* voiceMode and muted as the render that called handleSend saw them. The call
\* keeps the negation of that test.
F_Silent(vm, m) == ~(vm = "voice" /\ ~m)

\* speakText(text): window.speechSynthesis.cancel(), then speak(u).
speakText(snd, sub, text) ==
    IF text = <<>> THEN snd
    ELSE {u \in snd : u.chan # "tts"} \cup {Utter(sub, "tts", text)}

\* <video src={videoUrl} autoPlay muted={muted}>, rendered in the open panel
\* while videoUrl is set: the one video that plays when the panel is open and
\* videoUrl is url (0: none).
F_VideoElement(snd, isOpen, url) ==
    {u \in snd : u.chan # "video"}
        \cup (IF isOpen /\ url # 0 THEN {Utter(url, "video", <<>>)} ELSE {})

\* callBackend, "play audio": the channel started first for a 2xx reply.
F_playAudio(body, silentSeen) ==
    IF silentSeen THEN "none"
    ELSE IF body.speech_url THEN "audio" ELSE "tts"

\* audio.play().catch(() => speakText(assistantText)).
F_afterPlay(ok) == IF ok THEN "none" ELSE "tts"

\* Variant: setMessages((p) => [msg]), dropping the earlier turns.
pushMessageReplacing(p, msg) == <<msg>>

pushMessage(p, msg) == Append(p, msg)

Includes(s, kw) == \E i \in 1..Len(s) : s[i] = kw

ToLowerCase(s) ==
    [i \in 1..Len(s) |->
        IF s[i] = "HEADPHONE" THEN "headphone"
        ELSE IF s[i] = "FITNESS" THEN "fitness" ELSE s[i]]

MockVariants ==
    <<<<"Nice choice - I can find the perfect match for your needs.">>,
      <<"On it - scanning the shop for best options.">>,
      <<"Hmm - I have a few recommendations coming right up.">>>>

\* let reply = "I can help with ...": the text mockReply starts from.
MockDefaultText == <<"I can help with products, shipping, returns, and personalized suggestions.">>

\* Variant: without keyword the reply stays the text mockReply starts from.
MockReplyTextDefault(userText, r) ==
    LET lower == ToLowerCase(userText) IN
    IF Includes(lower, "headphone") \/ Includes(lower, "headset")
    THEN <<"Our Premium Wireless Headphones have active noise-cancellation.">>
    ELSE IF Includes(lower, "fitness") \/ Includes(lower, "tracker")
    THEN <<"The Smart Fitness Tracker monitors heart rate, steps, and sleep.">>
    ELSE MockDefaultText

\* mockReply: the reply text; r is Math.floor(Math.random() * 3) + 1.
MockReplyText(userText, r) ==
    LET lower == ToLowerCase(userText) IN
    IF Includes(lower, "headphone") \/ Includes(lower, "headset")
    THEN <<"Our Premium Wireless Headphones have active noise-cancellation.">>
    ELSE IF Includes(lower, "fitness") \/ Includes(lower, "tracker")
    THEN <<"The Smart Fitness Tracker monitors heart rate, steps, and sleep.">>
    ELSE MockVariants[r]

\* Variant: the fitness keywords are tested before the headphone keywords.
MockProdsFitnessFirst(userText, sub) ==
    LET lower == ToLowerCase(userText) IN
    IF Includes(lower, "fitness") \/ Includes(lower, "tracker")
    THEN <<Product("Smart Fitness Tracker", "$89.99", sub)>>
    ELSE IF Includes(lower, "headphone") \/ Includes(lower, "headset")
    THEN <<Product("Premium Wireless Headphones", "$129.99", sub)>>
    ELSE <<Product("Premium Wireless Headphones", "$129.99", sub),
           Product("Portable Bluetooth Speaker", "$79.99", sub)>>

\* mockReply: the products.
MockProds(userText, sub) ==
    LET lower == ToLowerCase(userText) IN
    IF Includes(lower, "headphone") \/ Includes(lower, "headset")
    THEN <<Product("Premium Wireless Headphones", "$129.99", sub)>>
    ELSE IF Includes(lower, "fitness") \/ Includes(lower, "tracker")
    THEN <<Product("Smart Fitness Tracker", "$89.99", sub)>>
    ELSE <<Product("Premium Wireless Headphones", "$129.99", sub),
           Product("Portable Bluetooth Speaker", "$79.99", sub)>>

\* Variant: a catch block that pushes no apology turn.
F_AssistantTurnsSilentFailure(o, sub) ==
    IF o.kind = "ok"
    THEN <<Msg("assistant", IF o.body.text # <<>> THEN o.body.text ELSE NoResponseF, sub)>>
    ELSE <<>>

\* callBackend: the assistant turns pushed when the request ends in outcome o.
F_AssistantTurns(o, sub) ==
    IF o.kind = "ok"
    THEN <<Msg("assistant", IF o.body.text # <<>> THEN o.body.text ELSE NoResponseF, sub)>>
    ELSE <<Msg("assistant", ApologyF, sub)>>

\* callBackend: setRecommended(data.recommended_products || []) in the try block
\* only; the catch block leaves the list as it is.
F_RecommendedAfter(o, sub, cur) ==
    IF o.kind = "ok" THEN BodyProducts(o.body, sub) ELSE cur

F_VideoAfter(o, sub, cur) ==
    IF o.kind = "ok" THEN BodyVideo(o.body, sub) ELSE cur

\* Variant: the flag is reset at the end of the try block only.
TypingAfterCallTryOnly(o) == o.kind # "ok"

\* finally { setTyping(false) } / finally { setIsTyping(false) }
TypingAfterCall(o) == FALSE

\* A call in flight. message is the text handed to the gateway.
Call(sub, stage, message, mutedSeen, hist) ==
    [sub |-> sub, stage |-> stage, message |-> message, mutedSeen |-> mutedSeen,
     history |-> hist]

\* An entry of the history array of a request payload.
Pair(role, content) == [role |-> role, content |-> content]

\* messages.map((m) => ({ role: m.sender === "user" ? "user" : "assistant",
\* content: m.text })).
ToHistory(msgs) ==
    [i \in 1..Len(msgs) |->
        Pair(IF msgs[i].sender = "user" THEN "user" ELSE "assistant", msgs[i].text)]

\* mockReply(text) is handed no history.
NoHistory == <<>>

Bump(f, s, n) == [f EXCEPT ![s] = @ + n]

\* The add-to-cart confirmations in a log.
CartCount(log) ==
    Cardinality({i \in 1..Len(log) : log[i].sub = 0 /\ log[i] \notin {WelcomeF, WelcomeM}})

\* Whitespace-only (or empty) text, as the user or the recognizer produced it.
Blank(raw) == \A i \in 1..Len(raw) : IsSpace(raw[i])

BlankCount(raw) == IF Blank(raw) THEN 1 ELSE 0

\* A recognition session (one start() of a SpeechRecognition object) is
\* "active" until stop() is called on it ("stopped"); once it has delivered its
\* single result or failed it is "done", and its end event removes it.
\* silent and seen are what the closure of its onresult handler holds: the
\* negated speak test and the log (messages, history) of the render that
\* installed the handler.
Session(st, silent, seen) == [st |-> st, silent |-> silent, seen |-> seen]

\* A session whose onresult handler cannot fire any more: what its closure
\* holds is read by nobody.
Done == Session("done", FALSE, <<>>)

\* recognition.stop(): the recognizer is asked to return a result from the
\* audio captured so far, so a stopped session can still deliver one.
Stop(ss, i) == IF ss[i].st = "active" THEN [ss EXCEPT ![i].st = "stopped"] ELSE ss

\* A host that runs one recognition at a time aborts the sessions still there
\* when another recognizer starts: they deliver nothing more and end. Another
\* host lets them run on.
Abort(ss) == [i \in DOMAIN ss |-> Done]

\* What handleSend reads of the messages array of its render: callBackend maps
\* it to the history of the payload, mockReply does not look at it.
F_Seen(mock, msgs) == IF mock THEN <<>> ELSE msgs

\* The sessions that can still fire onresult.
CanDeliver == {"active", "stopped"}

\* Variant: the recognizer is taken to be there whatever the host exposes.
CanStartAlways(supported) == TRUE

\* startListening: ("webkitSpeechRecognition" in window) || ("SpeechRecognition"
\* in window); toggleListening: recognitionRef.current is not null.
CanStart(supported) == supported

RemoveAt(ss, i) == SubSeq(ss, 1, i - 1) \o SubSeq(ss, i + 1, Len(ss))

\* localStorage.getItem(key) === null: nothing stored under the key.
NoItem == "(null)"

\* No item of the widget is stored.
NoStorage == [open |-> NoItem, muted |-> NoItem, mascot |-> NoItem, voiceMode |-> NoItem]

\* open ? "true" : "false", as the persistence effects write a flag.
FlagItem(b) == IF b THEN "true" ELSE "false"

\* The items an earlier mount can have left under the four keys.
Items ==
    [open |-> {NoItem} \cup {FlagItem(b) : b \in BOOLEAN},
     muted |-> {NoItem} \cup {FlagItem(b) : b \in BOOLEAN},
     mascot |-> {NoItem} \cup MascotChoices,
     voiceMode |-> {NoItem, "text", "voice"}]

\* Variant: the stored item is tested for presence only, Boolean(getItem(...)).
InitialOpenTruthy(item) == item # NoItem

\* useState initializers of open, muted, selectedMascot and voiceMode.
InitialOpen(item) == IF item # NoItem THEN item = "true" ELSE TRUE

InitialMuted(item) == item = "true"

InitialMascot(item) == IF item # NoItem THEN item ELSE Mascots[1]

InitialVoiceMode(item) == IF item # NoItem THEN item ELSE "text"

(***************************************************************************)
(* Initial state: the widget after mount (mount effects have run). The     *)
(* futuristic widget reads open, muted, voiceMode and the mascot from       *)
(* localStorage, which holds what an earlier mount left there, or nothing   *)
(* (then the defaults: open, not muted, "text", the first mascot).          *)
(***************************************************************************)
Init ==
    /\ widget \in Widgets
    /\ apiUrl \in {NoUrl, SomeUrl}
    /\ mockMode = (API_URL(widget, apiUrl) = NoUrl)
    /\ speechSupported \in (IF widget = "minimal" THEN {FALSE} ELSE BOOLEAN)
    /\ messages = (IF widget = "futuristic" THEN <<WelcomeF>>
                   ELSE IF widget = "minimal" THEN <<WelcomeM>> ELSE <<>>)
    /\ history = <<>>
    /\ input = <<>>
    /\ composer = <<>>
    /\ typing = FALSE
    /\ recommended = <<>>
    /\ lastReply = NoReply
    /\ videoUrl = 0
    /\ open \in (IF widget = "futuristic" THEN {InitialOpen(i) : i \in Items.open}
                 ELSE {FALSE})
    /\ muted \in (IF widget = "futuristic" THEN {InitialMuted(i) : i \in Items.muted}
                  ELSE {FALSE})
    /\ selectedMascot \in (IF widget = "futuristic"
                           THEN {InitialMascot(i) : i \in Items.mascot} ELSE {Mascots[1]})
    /\ listening = FALSE
    /\ sessions = <<>>
    /\ calls = {}
    /\ playing = {}
    /\ outputs = [s \in Subs |-> {}]
    /\ nextSub = 1
    /\ issued = [s \in Subs |-> 0]
    /\ appended = [s \in Subs |-> 0]
    /\ blanks = 0
    /\ voiceMode \in (IF widget = "futuristic"
                      THEN {InitialVoiceMode(i) : i \in Items.voiceMode} ELSE {"text"})
    /\ sounding = {}
    /\ alerts = 0
    /\ storage = (IF widget = "futuristic"
                  THEN [open |-> FlagItem(open), muted |-> FlagItem(muted),
                        mascot |-> selectedMascot, voiceMode |-> voiceMode]
                  ELSE NoStorage)
    /\ mounts = 1
    /\ now = 1
    /\ ids = (IF widget = "futuristic" THEN <<Stamp("m", 0)>>
              ELSE IF widget = "minimal" THEN <<Stamp("literal", 1)>> ELSE <<>>)

(***************************************************************************)
(* Futuristic widget: actions                                              *)
(***************************************************************************)
\* handleSend(textOverride?) with raw = textOverride ?? input. inputIfEmpty is
\* the value of input when handleSend returns early; silentSeen and seen are
\* the negated speak test and the messages of the render whose handleSend this
\* is: callBackend maps that messages array to the history of the payload.
F_handleSend(raw, inputIfEmpty, silentSeen, seen) ==
    LET text == Trim(raw) IN
    /\ blanks + BlankCount(raw) <= MaxBlanks
    /\ blanks' = blanks + BlankCount(raw)
    /\ IF text = <<>>
       THEN /\ input' = inputIfEmpty
            /\ UNCHANGED <<messages, ids, recommended, typing, calls, nextSub, issued>>
       ELSE /\ nextSub <= MaxSubs
            /\ messages' = pushMessage(messages, Msg("user", text, nextSub))
            /\ ids' = Append(ids, Stamp("u", now))
            /\ input' = <<>>
            /\ recommended' = <<>>
            /\ typing' = TRUE
            /\ calls' = calls \cup
                   {Call(nextSub, "fetch", text, silentSeen,
                         IF mockMode THEN NoHistory ELSE ToHistory(seen))}
            /\ nextSub' = nextSub + 1
            /\ issued' = Bump(issued, nextSub, 1)

\* <input onChange={(e) => setInput(e.target.value)}>
F_InputChange(t) ==
    /\ widget = "futuristic" /\ open
    /\ input # t
    /\ input' = t
    /\ UNCHANGED <<widget, apiUrl, storage, mounts, now, ids, voiceMode, sounding, alerts,
                   mockMode, speechSupported, messages, history, composer,
                   typing, recommended, lastReply, videoUrl, open, muted,
                   selectedMascot, listening, sessions, calls, playing, outputs,
                   nextSub, issued, appended, blanks>>

\* Enter in the composer, or the send button: handleSend().
F_SendTyped ==
    /\ widget = "futuristic" /\ open
    /\ F_handleSend(input, input, F_Silent(voiceMode, muted), messages)
    /\ UNCHANGED <<widget, apiUrl, storage, mounts, now, voiceMode, sounding, alerts,
                   mockMode, speechSupported, history, composer, lastReply,
                   videoUrl, open, muted, selectedMascot, listening, sessions,
                   playing, outputs, appended>>

\* The mic button: stopListening() when listening, startListening() otherwise.
\* speechRecRef.current is the session started last; startListening creates a
\* new recognizer whatever became of the earlier ones, which the host aborts
\* or not.
F_MicClick ==
    /\ widget = "futuristic" /\ open
    /\ IF listening
       THEN /\ listening' = FALSE
            /\ sessions' = IF sessions = <<>> THEN sessions
                           ELSE Stop(sessions, Len(sessions))
            /\ UNCHANGED alerts
       ELSE IF ~CanStart(speechSupported)
       THEN /\ alerts < MaxAlerts
            /\ alerts' = alerts + 1
            /\ UNCHANGED <<listening, sessions>>
       ELSE /\ Len(sessions) < MaxSessions
            /\ \E earlier \in {sessions, Abort(sessions)} :
                   sessions' = Append(earlier,
                                      Session("active", F_Silent(voiceMode, muted),
                                              F_Seen(mockMode, messages)))
            /\ listening' = TRUE
            /\ UNCHANGED alerts
    /\ UNCHANGED <<widget, apiUrl, storage, mounts, now, ids, voiceMode, sounding,
                   mockMode, speechSupported, messages, history, input,
                   composer, typing, recommended, lastReply, videoUrl, open, muted,
                   selectedMascot, calls, playing, outputs, nextSub, issued,
                   appended, blanks>>

\* rec.onresult: setInput(transcript); handleSend(transcript), the handleSend
\* of the render that called startListening.
F_RecResult(i, t) ==
    /\ widget = "futuristic"
    /\ sessions[i].st \in CanDeliver
    /\ sessions' = [sessions EXCEPT ![i] = Done]
    /\ F_handleSend(t, t, sessions[i].silent, sessions[i].seen)
    /\ UNCHANGED <<widget, apiUrl, storage, mounts, now, voiceMode, sounding, alerts,
                   mockMode, speechSupported, history, composer, lastReply,
                   videoUrl, open, muted, selectedMascot, listening, playing,
                   outputs, appended>>

\* rec.onerror: setListening(false).
F_RecError(i) ==
    /\ widget = "futuristic"
    /\ sessions[i].st \in CanDeliver
    /\ sessions' = [sessions EXCEPT ![i] = Done]
    /\ listening' = FALSE
    /\ UNCHANGED <<widget, apiUrl, storage, mounts, now, ids, voiceMode, sounding, alerts,
                   mockMode, speechSupported, messages, history, input,
                   composer, typing, recommended, lastReply, videoUrl, open, muted,
                   selectedMascot, calls, playing, outputs, nextSub, issued,
                   appended, blanks>>

\* rec.onend: setListening(false); the session is over.
F_RecEnd(i) ==
    /\ widget = "futuristic"
    /\ sessions' = RemoveAt(sessions, i)
    /\ listening' = FALSE
    /\ UNCHANGED <<widget, apiUrl, storage, mounts, now, ids, voiceMode, sounding, alerts,
                   mockMode, speechSupported, messages, history, input,
                   composer, typing, recommended, lastReply, videoUrl, open, muted,
                   selectedMascot, calls, playing, outputs, nextSub, issued,
                   appended, blanks>>

\* mockReply after its timer: r is the pseudo-random index.
F_MockResolve(c, r) ==
    LET reply == MockReplyText(c.message, r)
        spoken == IF c.mutedSeen THEN sounding ELSE speakText(sounding, c.sub, reply)
    IN
    /\ widget = "futuristic" /\ mockMode
    /\ messages' = pushMessage(messages, Msg("assistant", reply, c.sub))
    /\ ids' = Append(ids, Stamp("m", now))
    /\ recommended' = MockProds(c.message, c.sub)
    /\ typing' = FALSE
    /\ videoUrl' = 0
    /\ calls' = calls \ {c}
    /\ appended' = Bump(appended, c.sub, 1)
    /\ sounding' = F_VideoElement(spoken, open, 0)
    /\ UNCHANGED <<widget, apiUrl, storage, mounts, now, voiceMode, alerts, mockMode, speechSupported,
                   history, input, composer, lastReply, open, muted, selectedMascot,
                   listening, sessions, playing, outputs, nextSub, issued, blanks>>

\* callBackend after fetch settles with outcome o.
F_BackendResolve(c, o) ==
    LET turns == F_AssistantTurns(o, c.sub)
        video == F_VideoAfter(o, c.sub, videoUrl)
        chan == IF o.kind = "ok" THEN F_playAudio(o.body, c.mutedSeen) ELSE "none"
        text == turns[1].text
        spoken == IF chan = "tts" THEN speakText(sounding, c.sub, text) ELSE sounding
    IN
    /\ widget = "futuristic" /\ ~mockMode
    /\ messages' = messages \o turns
    /\ ids' = ids \o [i \in 1..Len(turns) |-> Stamp("m", now)]
    /\ recommended' = F_RecommendedAfter(o, c.sub, recommended)
    /\ videoUrl' = video
    /\ typing' = TypingAfterCall(o)
    /\ calls' = calls \ {c}
    /\ appended' = Bump(appended, c.sub, Len(turns))
    /\ playing' = IF chan = "audio"
                  THEN playing \cup {Play(c.sub, "audio", o.body.avatar_video_url, text)}
                  ELSE playing
    /\ sounding' = F_VideoElement(spoken, open, video)
    /\ UNCHANGED <<widget, apiUrl, storage, mounts, now, voiceMode, alerts, mockMode, speechSupported,
                   history, input, composer, lastReply, open, muted, selectedMascot,
                   listening, sessions, outputs, nextSub, issued, blanks>>

\* play() of a new Audio(speech_url) settles (ok) or rejects.
F_PlaySettle(p, ok) ==
    LET next == F_afterPlay(ok)
        heard == IF ok THEN sounding \cup {Utter(p.sub, "audio", <<>>)} ELSE sounding
    IN
    /\ widget = "futuristic"
    /\ playing' = playing \ {p}
    /\ sounding' = IF next = "tts" THEN speakText(heard, p.sub, p.text) ELSE heard
    /\ UNCHANGED <<widget, apiUrl, storage, mounts, now, ids, voiceMode, alerts, mockMode, speechSupported,
                   messages, history, input, composer, typing, recommended,
                   lastReply, videoUrl, open, muted, selectedMascot, listening,
                   sessions, calls, outputs, nextSub, issued, appended, blanks>>

\* handleAddToCart(p) for the i-th card shown.
F_AddToCart(i) ==
    /\ widget = "futuristic" /\ open
    /\ CartCount(messages) < MaxCart
    /\ messages' = pushMessage(messages,
                       Msg("assistant", <<recommended[i].title, " has been added to your cart.">>, 0))
    /\ ids' = Append(ids, Stamp("c", now))
    /\ UNCHANGED <<widget, apiUrl, storage, mounts, now, voiceMode, sounding, alerts,
                   mockMode, speechSupported, history, input, composer,
                   typing, recommended, lastReply, videoUrl, open, muted,
                   selectedMascot, listening, sessions, calls, playing, outputs,
                   nextSub, issued, appended, blanks>>

\* The Clear button: setMessages([]); setRecommended([]).
F_Clear ==
    /\ widget = "futuristic" /\ open
    /\ messages' = <<>>
    /\ ids' = <<>>
    /\ recommended' = <<>>
    /\ UNCHANGED <<widget, apiUrl, storage, mounts, now, voiceMode, sounding, alerts,
                   mockMode, speechSupported, history, input, composer,
                   typing, lastReply, videoUrl, open, muted, selectedMascot,
                   listening, sessions, calls, playing, outputs, nextSub, issued,
                   appended, blanks>>

\* The mute button: setMuted((s) => !s).
F_ToggleMuted ==
    /\ widget = "futuristic" /\ open
    /\ muted' = ~muted
    /\ storage' = [storage EXCEPT !.muted = FlagItem(~muted)]
    /\ UNCHANGED <<widget, apiUrl, mounts, now, ids, voiceMode, sounding, alerts,
                   mockMode, speechSupported, messages, history, input,
                   composer, typing, recommended, lastReply, videoUrl, open,
                   selectedMascot, listening, sessions, calls, playing, outputs,
                   nextSub, issued, appended, blanks>>

\* Variant: choosing another mascot starts the conversation over.
F_SelectMascotResetting(m) ==
    /\ widget = "futuristic" /\ open
    /\ selectedMascot # m
    /\ selectedMascot' = m
    /\ messages' = <<WelcomeF>>
    /\ ids' = <<Stamp("m", now)>>
    /\ calls' = {}
    /\ storage' = [storage EXCEPT !.mascot = m]
    /\ UNCHANGED <<widget, apiUrl, mounts, now, voiceMode, sounding, alerts,
                   mockMode, speechSupported, history, input,
                   composer, typing, recommended, lastReply, videoUrl, open, muted,
                   listening, sessions, playing, outputs, nextSub, issued,
                   appended, blanks>>

\* The mascot <select>: setSelectedMascot(e.target.value).
F_SelectMascot(m) ==
    /\ widget = "futuristic" /\ open
    /\ selectedMascot # m
    /\ selectedMascot' = m
    /\ storage' = [storage EXCEPT !.mascot = m]
    /\ UNCHANGED <<widget, apiUrl, mounts, now, ids, voiceMode, sounding, alerts,
                   mockMode, speechSupported, messages, history, input,
                   composer, typing, recommended, lastReply, videoUrl, open, muted,
                   listening, sessions, calls, playing, outputs, nextSub, issued,
                   appended, blanks>>

\* The bubble (setOpen(true)) and the minimize button (setOpen(false)): the
\* panel, and the video element in it, is rendered only while open.
F_SetOpen ==
    /\ widget = "futuristic"
    /\ open' = ~open
    /\ sounding' = F_VideoElement(sounding, ~open, videoUrl)
    /\ storage' = [storage EXCEPT !.open = FlagItem(~open)]
    /\ UNCHANGED <<widget, apiUrl, mounts, now, ids, voiceMode, alerts, mockMode, speechSupported,
                   messages, history, input, composer, typing, recommended,
                   lastReply, videoUrl, muted, selectedMascot, listening, sessions,
                   calls, playing, outputs, nextSub, issued, appended, blanks>>

\* The Text and Voice buttons: setVoiceMode("text"), setVoiceMode("voice").
F_SetVoiceMode(v) ==
    /\ widget = "futuristic" /\ open
    /\ voiceMode # v
    /\ voiceMode' = v
    /\ storage' = [storage EXCEPT !.voiceMode = v]
    /\ UNCHANGED <<widget, apiUrl, mounts, now, ids, sounding, alerts, mockMode, speechSupported,
                   messages, history, input, composer, typing, recommended,
                   lastReply, videoUrl, open, muted, selectedMascot, listening,
                   sessions, calls, playing, outputs, nextSub, issued, appended,
                   blanks>>

\* The page is loaded again and AvatarWidgetFuturistic mounts anew: every state
\* starts from its useState initializer, four of which read localStorage; the
\* mount effects then push the greeting and write the four items. What the
\* page before had pending or playing is gone with it.
F_Mount ==
    LET o == InitialOpen(storage.open)
        m == InitialMuted(storage.muted)
        masc == InitialMascot(storage.mascot)
        vm == InitialVoiceMode(storage.voiceMode)
    IN
    /\ widget = "futuristic"
    /\ mounts < MaxMounts
    /\ mounts' = mounts + 1
    /\ open' = o /\ muted' = m /\ selectedMascot' = masc /\ voiceMode' = vm
    /\ storage' = [open |-> FlagItem(o), muted |-> FlagItem(m),
                   mascot |-> masc, voiceMode |-> vm]
    /\ messages' = <<WelcomeF>>
    /\ ids' = <<Stamp("m", now)>>
    /\ now' = now + 1
    /\ input' = <<>> /\ typing' = FALSE /\ recommended' = <<>> /\ videoUrl' = 0
    /\ listening' = FALSE /\ sessions' = <<>>
    /\ calls' = {} /\ playing' = {} /\ sounding' = {}
    /\ nextSub' = 1
    /\ issued' = [s \in Subs |-> 0] /\ appended' = [s \in Subs |-> 0]
    /\ blanks' = 0 /\ alerts' = 0
    /\ UNCHANGED <<widget, apiUrl, mockMode, speechSupported, history, composer,
                   lastReply, outputs>>

\* The item under one key is removed from localStorage (site data cleared,
\* removeItem by the page): the widget is not told.
F_ItemRemoved(k) ==
    /\ widget = "futuristic"
    /\ storage[k] # NoItem
    /\ storage' = [storage EXCEPT ![k] = NoItem]
    /\ UNCHANGED <<widget, apiUrl, mounts, now, ids, voiceMode, sounding, alerts,
                   mockMode, speechSupported, messages, history, input,
                   composer, typing, recommended, lastReply, videoUrl, open, muted,
                   selectedMascot, listening, sessions, calls, playing, outputs,
                   nextSub, issued, appended, blanks>>

\* Writing to the avatar: the panel, the composer, and what the gateway and
\* the audio element report back.
F_Typing ==
    \/ F_SetOpen
    \/ \E t \in Typed : F_InputChange(t)
    \/ F_SendTyped
    \/ \E c \in calls, r \in 1..Len(MockVariants) : F_MockResolve(c, r)
    \/ \E c \in calls, o \in Outcomes : F_BackendResolve(c, o)
    \/ \E p \in playing, ok \in BOOLEAN : F_PlaySettle(p, ok)

\* Speaking to the avatar: the microphone and what the recognizer reports.
F_Listening ==
    \/ F_MicClick
    \/ \E i \in 1..Len(sessions), t \in Transcripts : F_RecResult(i, t)
    \/ \E i \in 1..Len(sessions) : F_RecError(i)
    \/ \E i \in 1..Len(sessions) : F_RecEnd(i)

\* Talking to the avatar, either way.
F_Converse == F_Typing \/ F_Listening

\* Changing a preference.
F_Adjust ==
    \/ F_ToggleMuted
    \/ \E v \in {"text", "voice"} : F_SetVoiceMode(v)
    \/ \E m \in MascotChoices : F_SelectMascot(m)

\* Acting on the log: a product card's button, the Clear button.
F_Curate ==
    \/ \E i \in 1..Len(recommended) : F_AddToCart(i)
    \/ F_Clear

F_Next == F_Converse \/ F_Adjust \/ F_Curate

(***************************************************************************)
(* Minimal widget (handleSend / callBackend): helpers and actions          *)
(***************************************************************************)
appendMessage(p, m) == Append(p, m)

\* callBackend returns the body, or { text: "Sorry, something went wrong." }.
M_Result(o) ==
    IF o.kind = "ok" THEN o.body
    ELSE [text |-> ApologyM, speech_url |-> FALSE, avatar_video_url |-> FALSE,
          recommended_products |-> FALSE]

\* handleSend after callBackend returned: the assistant turn.
M_AssistantTurns(o, sub) ==
    LET result == M_Result(o) IN
    <<Msg("assistant", IF result.text # <<>> THEN result.text ELSE NoAnswerM, sub)>>

\* handleSend: setRecommendedProducts(result.recommended_products) or ([]).
M_RecommendedAfter(o, sub) == BodyProducts(M_Result(o), sub)

M_VideoAfter(o, sub) == BodyVideo(M_Result(o), sub)

\* <textarea onChange={(e) => setUserInput(e.target.value)}>
M_InputChange(t) ==
    /\ widget = "minimal" /\ open
    /\ input # t
    /\ input' = t
    /\ UNCHANGED <<widget, apiUrl, storage, mounts, now, ids, voiceMode, sounding, alerts,
                   mockMode, speechSupported, messages, history, composer,
                   typing, recommended, lastReply, videoUrl, open, muted,
                   selectedMascot, listening, sessions, calls, playing, outputs,
                   nextSub, issued, appended, blanks>>

\* Enter or the send button: handleSend, up to the fetch of callBackend.
M_handleSend ==
    LET text == Trim(input) IN
    /\ widget = "minimal" /\ open
    /\ blanks + BlankCount(input) <= MaxBlanks
    /\ blanks' = blanks + BlankCount(input)
    /\ IF text = <<>>
       THEN UNCHANGED <<messages, ids, input, typing, videoUrl, calls, nextSub, issued>>
       ELSE /\ nextSub <= MaxSubs
            /\ messages' = appendMessage(messages, Msg("user", text, nextSub))
            /\ ids' = Append(ids, Stamp("ms", now))
            /\ input' = <<>>
            /\ typing' = TRUE
            /\ videoUrl' = 0
            /\ calls' = calls \cup
                   {Call(nextSub, "fetch", text, FALSE, ToHistory(messages))}
            /\ nextSub' = nextSub + 1
            /\ issued' = Bump(issued, nextSub, 1)
    /\ UNCHANGED <<widget, apiUrl, storage, mounts, now, voiceMode, sounding, alerts,
                   mockMode, speechSupported, history, composer,
                   recommended, lastReply, open, muted, selectedMascot, listening,
                   sessions, playing, outputs, appended>>

\* callBackend after fetch settles with outcome o, and the rest of handleSend.
M_Resolve(c, o) ==
    LET turns == M_AssistantTurns(o, c.sub) IN
    /\ widget = "minimal"
    /\ typing' = TypingAfterCall(o)
    /\ messages' = messages \o turns
    /\ ids' = ids \o [i \in 1..Len(turns) |-> Stamp("ms", now + 1)]
    /\ recommended' = M_RecommendedAfter(o, c.sub)
    /\ videoUrl' = M_VideoAfter(o, c.sub)
    /\ calls' = calls \ {c}
    /\ appended' = Bump(appended, c.sub, Len(turns))
    /\ UNCHANGED <<widget, apiUrl, storage, mounts, now, voiceMode, sounding, alerts,
                   mockMode, speechSupported, history, input, composer,
                   lastReply, open, muted, selectedMascot, listening, sessions,
                   playing, outputs, nextSub, issued, blanks>>

\* handleAddToCart(p) for the i-th card shown.
M_AddToCart(i) ==
    /\ widget = "minimal" /\ open
    /\ CartCount(messages) < MaxCart
    /\ messages' = appendMessage(messages,
                       Msg("assistant", <<recommended[i].title, " added to cart.">>, 0))
    /\ ids' = Append(ids, Stamp("ms", now))
    /\ recommended' = <<>>
    /\ UNCHANGED <<widget, apiUrl, storage, mounts, now, voiceMode, sounding, alerts,
                   mockMode, speechSupported, history, input, composer,
                   typing, lastReply, videoUrl, open, muted, selectedMascot,
                   listening, sessions, calls, playing, outputs, nextSub, issued,
                   appended, blanks>>

\* The launcher button (setIsMinimized(false)) and the header button (true).
M_SetMinimized ==
    /\ widget = "minimal"
    /\ open' = ~open
    /\ UNCHANGED <<widget, apiUrl, storage, mounts, now, ids, voiceMode, sounding, alerts,
                   mockMode, speechSupported, messages, history, input,
                   composer, typing, recommended, lastReply, videoUrl, muted,
                   selectedMascot, listening, sessions, calls, playing, outputs,
                   nextSub, issued, appended, blanks>>

M_Converse ==
    \/ M_SetMinimized
    \/ \E t \in Typed : M_InputChange(t)
    \/ M_handleSend
    \/ \E c \in calls, o \in Outcomes : M_Resolve(c, o)

M_Curate == \E i \in 1..Len(recommended) : M_AddToCart(i)

M_Next == M_Converse \/ M_Curate

(***************************************************************************)
(* Walking-mascot widget (handleSendMessage / playSpeech)                  *)
(***************************************************************************)
\* What the user leaves in the composer of the chat modal.
ComposerTexts == {<<" ">>, <<" ", "hi">>}

Entry(role, content, sub) == [role |-> role, content |-> content, sub |-> sub]

\* fetchChat in mock mode: the demo reply.
W_MockReply(message) ==
    [text |-> <<"Demo reply to: ">> \o message, speech_url |-> FALSE,
     avatar_video_url |-> FALSE, recommended_products |-> TRUE]

\* fetchChat in live mode: the body, or the apology object of the catch block.
W_LiveReply(o) ==
    IF o.kind = "ok" THEN o.body
    ELSE [text |-> ApologyW, speech_url |-> FALSE, avatar_video_url |-> FALSE,
          recommended_products |-> FALSE]

\* lastReply, with the submission it answers.
W_Shown(reply, sub) ==
    [text |-> reply.text, speech_url |-> reply.speech_url,
     avatar_video_url |-> reply.avatar_video_url,
     recommended_products |-> BodyProducts(reply, sub), from |-> sub]

\* playSpeech(response): the channel whose play() or speak() it starts first,
\* with muted as the calling closure saw it.
W_playSpeech(reply, mutedSeen) ==
    IF mutedSeen THEN "none"
    ELSE IF reply.speech_url THEN "audio"
    ELSE IF reply.avatar_video_url THEN "video"
    ELSE "tts"

\* Variant: no return after the audio block, so that a reply whose audio played
\* goes on to the avatar video, or to speech synthesis.
W_afterPlayFallThrough(chan, ok, hasVideo) ==
    IF ~ok THEN "tts"
    ELSE IF chan # "audio" THEN "none"
    ELSE IF hasVideo THEN "video" ELSE "tts"

\* Variant: a reply whose audio failed goes on to its avatar video, if it has
\* one, before speech synthesis.
W_afterPlayVideoNext(chan, ok, hasVideo) ==
    IF ok THEN "none"
    ELSE IF chan = "audio" /\ hasVideo THEN "video" ELSE "tts"

\* playSpeech(response) after the awaited play() of chan settled: on success it
\* returns; on rejection the catch block calls speakWithTTS, then it returns.
W_afterPlay(chan, ok, hasVideo) == IF ok THEN "none" ELSE "tts"

\* element.src = url on the audio (video) element: what it was playing stops.
W_Loaded(chan, snd) == {u \in snd : u.chan # chan}

\* element.src = url rejects the play() promises pending on that element.
W_Aborted(chan, plays) == {p \in plays : p.chan = chan}

\* Variant: window.speechSynthesis is not used.
speakWithTTSNothing(snd, sub, text) == snd

\* speakWithTTS(text): synth.speak(utter), after whatever is queued.
speakWithTTS(snd, sub, text) == snd \cup {Utter(sub, "tts", text)}

\* The utterances the catch handlers of the rejected promises ps start.
W_Fallbacks(ps) ==
    {Utter(p.sub, W_afterPlay(p.chan, FALSE, p.hasVideo), p.text) :
        p \in {q \in ps : W_afterPlay(q.chan, FALSE, q.hasVideo) # "none"}}

\* outputs after the promises ps were rejected.
W_OutputsAfterAbort(out, ps) ==
    [s \in DOMAIN out |->
        out[s] \cup UNION {{IF p.chan = "audio" THEN "audio_failed" ELSE "video_failed",
                             W_afterPlay(p.chan, FALSE, p.hasVideo)} \ {"none"} :
                           p \in {q \in ps : q.sub = s}}]

\* newHistory = [...history, { role: "user", content: message }], which is
\* what fetchChat puts into the payload.
W_newHistory(hist, message) ==
    [i \in 1..Len(hist) |-> Pair(hist[i].role, hist[i].content)]
        \o <<Pair("user", message)>>

\* handleSendMessage(message) of a render whose history is hist and whose muted
\* is mutedSeen, up to the await of animateWalk.
W_handleSendMessage(message, hist, mutedSeen) ==
    /\ blanks + BlankCount(message) <= MaxBlanks
    /\ blanks' = blanks + BlankCount(message)
    /\ IF message = <<>> \/ Trim(message) = <<>>
       THEN UNCHANGED <<history, calls, nextSub>>
       ELSE /\ nextSub <= MaxSubs
            /\ history' = Append(hist, Entry("user", message, nextSub))
            /\ calls' = calls \cup
                   {Call(nextSub, "walk", message, mutedSeen,
                         W_newHistory(hist, message))}
            /\ nextSub' = nextSub + 1

\* Typing into the composer of the chat modal.
W_ComposerInput(t) ==
    /\ widget = "walking" /\ open
    /\ composer # t
    /\ composer' = t
    /\ UNCHANGED <<widget, apiUrl, storage, mounts, now, ids, voiceMode, sounding, alerts,
                   mockMode, speechSupported, messages, history, input,
                   typing, recommended, lastReply, videoUrl, open, muted,
                   selectedMascot, listening, sessions, calls, playing, outputs,
                   nextSub, issued, appended, blanks>>

\* Enter in the composer: the value is read, the field emptied, the value sent.
W_ComposerEnter ==
    /\ widget = "walking" /\ open
    /\ composer' = <<>>
    /\ W_handleSendMessage(composer, history, muted)
    /\ UNCHANGED <<widget, apiUrl, storage, mounts, now, ids, voiceMode, sounding, alerts,
                   mockMode, speechSupported, messages, input, typing,
                   recommended, lastReply, videoUrl, open, muted, selectedMascot,
                   listening, sessions, playing, outputs, issued, appended>>

\* The Send button: as Enter, but it returns first when the value is "".
W_SendClick ==
    /\ widget = "walking" /\ open
    /\ composer # <<>>
    /\ composer' = <<>>
    /\ W_handleSendMessage(composer, history, muted)
    /\ UNCHANGED <<widget, apiUrl, storage, mounts, now, ids, voiceMode, sounding, alerts,
                   mockMode, speechSupported, messages, input, typing,
                   recommended, lastReply, videoUrl, open, muted, selectedMascot,
                   listening, sessions, playing, outputs, issued, appended>>

\* toggleListening: without a recognizer, the alert; rec.stop() when listening;
\* otherwise rec.start(), which throws while the recognizer's session has not
\* ended, and then nothing is set.
W_toggleListening ==
    /\ widget = "walking"
    /\ IF ~CanStart(speechSupported)
       THEN /\ alerts < MaxAlerts
            /\ alerts' = alerts + 1
            /\ UNCHANGED <<listening, sessions>>
       ELSE IF listening
       THEN /\ listening' = FALSE
            /\ sessions' = IF sessions = <<>> THEN sessions ELSE Stop(sessions, 1)
            /\ UNCHANGED alerts
       ELSE /\ sessions = <<>>
            /\ sessions' = <<Session("active", FALSE, <<>>)>>
            /\ listening' = TRUE
            /\ UNCHANGED alerts
    /\ UNCHANGED <<widget, apiUrl, storage, mounts, now, ids, voiceMode, sounding,
                   mockMode, speechSupported, messages, history, input,
                   composer, typing, recommended, lastReply, videoUrl, open, muted,
                   selectedMascot, calls, playing, outputs, nextSub, issued,
                   appended, blanks>>

\* rec.onresult, installed by the mount effect: it calls the handleSendMessage
\* of the first render, whose history is [] and whose muted is false.
W_RecResult(t) ==
    /\ widget = "walking"
    /\ sessions # <<>> /\ sessions[1].st \in CanDeliver
    /\ sessions' = [sessions EXCEPT ![1] = Done]
    /\ W_handleSendMessage(t, sessions[1].seen, sessions[1].silent)
    /\ UNCHANGED <<widget, apiUrl, storage, mounts, now, ids, voiceMode, sounding, alerts,
                   mockMode, speechSupported, messages, input, composer,
                   typing, recommended, lastReply, videoUrl, open, muted,
                   selectedMascot, listening, playing, outputs, issued, appended>>

\* rec.onend: setListening(false).
W_RecEnd ==
    /\ widget = "walking"
    /\ sessions # <<>>
    /\ sessions' = <<>>
    /\ listening' = FALSE
    /\ UNCHANGED <<widget, apiUrl, storage, mounts, now, ids, voiceMode, sounding, alerts,
                   mockMode, speechSupported, messages, history, input,
                   composer, typing, recommended, lastReply, videoUrl, open, muted,
                   selectedMascot, calls, playing, outputs, nextSub, issued,
                   appended, blanks>>

\* animateWalk resolves; fetchChat is called with the history of the closure.
W_WalkDone(c) ==
    /\ widget = "walking"
    /\ c.stage = "walk"
    /\ calls' = (calls \ {c}) \cup {[c EXCEPT !.stage = "fetch"]}
    /\ issued' = Bump(issued, c.sub, 1)
    /\ UNCHANGED <<widget, apiUrl, storage, mounts, now, ids, voiceMode, sounding, alerts,
                   mockMode, speechSupported, messages, history, input,
                   composer, typing, recommended, lastReply, videoUrl, open, muted,
                   selectedMascot, listening, sessions, playing, outputs, nextSub,
                   appended, blanks>>

\* The rest of handleSendMessage once fetchChat returned reply: setLastReply,
\* setHistory, and playSpeech(reply) up to its first await.
W_Reply(c, reply) ==
    LET chan == W_playSpeech(reply, c.mutedSeen)
        aborted == IF chan \in {"audio", "video"} THEN W_Aborted(chan, playing) ELSE {}
        out == W_OutputsAfterAbort(outputs, aborted)
    IN
    /\ c.stage = "fetch"
    /\ lastReply' = W_Shown(reply, c.sub)
    /\ history' = Append(history, Entry("assistant", reply.text, c.sub))
    /\ calls' = calls \ {c}
    /\ appended' = Bump(appended, c.sub, 1)
    /\ outputs' = IF chan = "none" THEN out
                  ELSE [out EXCEPT ![c.sub] = @ \cup {chan}]
    /\ playing' = IF chan \in {"audio", "video"}
                  THEN (playing \ aborted)
                           \cup {Play(c.sub, chan, reply.avatar_video_url, reply.text)}
                  ELSE playing
    /\ sounding' = IF chan \in {"audio", "video"}
                   THEN W_Loaded(chan, sounding) \cup W_Fallbacks(aborted)
                   ELSE IF chan = "tts" THEN speakWithTTS(sounding, c.sub, reply.text)
                   ELSE sounding
    /\ UNCHANGED <<widget, apiUrl, storage, mounts, now, ids, voiceMode, alerts, mockMode, speechSupported,
                   messages, input, composer, typing, recommended, videoUrl, open,
                   muted, selectedMascot, listening, sessions, nextSub, issued,
                   blanks>>

\* fetchChat in mock mode, after its timer.
W_MockResolve(c) ==
    /\ widget = "walking" /\ mockMode
    /\ W_Reply(c, W_MockReply(c.message))

\* fetchChat in live mode, after fetch settles with outcome o.
W_FetchResolve(c, o) ==
    /\ widget = "walking" /\ ~mockMode
    /\ W_Reply(c, W_LiveReply(o))

\* play() of the audio or video element settles (ok) or rejects. outputs also
\* records the rejection, as "audio_failed" or "video_failed".
W_PlaySettle(p, ok) ==
    LET next == W_afterPlay(p.chan, ok, p.hasVideo)
        failed == IF ok THEN {} ELSE {IF p.chan = "audio" THEN "audio_failed" ELSE "video_failed"}
        started == IF next = "none" THEN {} ELSE {next}
        heard == IF ok THEN sounding \cup {Utter(p.sub, p.chan, <<>>)} ELSE sounding
    IN
    /\ widget = "walking"
    /\ playing' = (playing \ {p}) \cup
                      (IF next \in {"audio", "video"}
                       THEN {Play(p.sub, next, p.hasVideo, p.text)} ELSE {})
    /\ outputs' = [outputs EXCEPT ![p.sub] = @ \cup failed \cup started]
    /\ sounding' = IF next = "tts" THEN speakWithTTS(heard, p.sub, p.text) ELSE heard
    /\ UNCHANGED <<widget, apiUrl, storage, mounts, now, ids, voiceMode, alerts, mockMode, speechSupported,
                   messages, history, input, composer, typing, recommended,
                   lastReply, videoUrl, open, muted, selectedMascot, listening,
                   sessions, calls, nextSub, issued, appended, blanks>>

\* The mute button: setMuted((m) => !m).
W_ToggleMuted ==
    /\ widget = "walking"
    /\ muted' = ~muted
    /\ UNCHANGED <<widget, apiUrl, storage, mounts, now, ids, voiceMode, sounding, alerts,
                   mockMode, speechSupported, messages, history, input,
                   composer, typing, recommended, lastReply, videoUrl, open,
                   selectedMascot, listening, sessions, calls, playing, outputs,
                   nextSub, issued, appended, blanks>>

\* The Chat button, the helper button and Ctrl/Cmd+K: setOpen((o) => !o).
W_ToggleOpen ==
    /\ widget = "walking"
    /\ open' = ~open
    /\ UNCHANGED <<widget, apiUrl, storage, mounts, now, ids, voiceMode, sounding, alerts,
                   mockMode, speechSupported, messages, history, input,
                   composer, typing, recommended, lastReply, videoUrl, muted,
                   selectedMascot, listening, sessions, calls, playing, outputs,
                   nextSub, issued, appended, blanks>>

\* The mascot selector: setSelectedMascotIndex(i).
W_SelectMascot(m) ==
    /\ widget = "walking"
    /\ selectedMascot # m
    /\ selectedMascot' = m
    /\ UNCHANGED <<widget, apiUrl, storage, mounts, now, ids, voiceMode, sounding, alerts,
                   mockMode, speechSupported, messages, history, input,
                   composer, typing, recommended, lastReply, videoUrl, open, muted,
                   listening, sessions, calls, playing, outputs, nextSub, issued,
                   appended, blanks>>

W_Typing ==
    \/ W_ToggleOpen
    \/ \E t \in ComposerTexts : W_ComposerInput(t)
    \/ W_ComposerEnter
    \/ W_SendClick
    \/ \E c \in calls : W_WalkDone(c)
    \/ \E c \in calls : W_MockResolve(c)
    \/ \E c \in calls, o \in Outcomes : W_FetchResolve(c, o)
    \/ \E p \in playing, ok \in BOOLEAN : W_PlaySettle(p, ok)

W_Listening ==
    \/ W_toggleListening
    \/ \E t \in Transcripts : W_RecResult(t)
    \/ W_RecEnd

W_Converse == W_Typing \/ W_Listening

W_Adjust ==
    \/ W_ToggleMuted
    \/ \E m \in MascotChoices : W_SelectMascot(m)

W_Next == W_Converse \/ W_Adjust

Next == F_Next \/ M_Next \/ W_Next

Spec == Init /\ [][Next]_vars

(***************************************************************************)
(* The whole program is the product of activities that hardly touch each   *)
(* other's state: talking to the avatar (in writing, or through the        *)
(* microphone), changing a preference, acting on the log. The properties   *)
(* are verified on the conversation, and on the written conversation       *)
(* together with one of the other two.                                     *)
(***************************************************************************)
Converse == F_Converse \/ M_Converse \/ W_Converse

Typing == F_Typing \/ M_Converse \/ W_Typing

Adjust == F_Adjust \/ W_Adjust

Curate == F_Curate \/ M_Curate

\* Conversations, written and spoken.
ChatSpec == Init /\ [][Converse]_vars

\* Written conversations during which preferences change.
VoiceSpec == Init /\ [][Typing \/ Adjust]_vars

\* Written conversations during which the log is acted upon.
LogSpec == Init /\ [][Typing \/ Curate]_vars

\* A millisecond passes.
Tick ==
    /\ now < MaxNow
    /\ now' = now + 1
    /\ UNCHANGED <<widget, apiUrl, storage, mounts, ids, voiceMode, sounding, alerts,
                   mockMode, speechSupported, messages, history, input,
                   composer, typing, recommended, lastReply, videoUrl, open, muted,
                   selectedMascot, listening, sessions, calls, playing, outputs,
                   nextSub, issued, appended, blanks>>

\* Written conversations during which the log is acted upon, on the clock.
IdSpec == Init /\ [][Typing \/ Curate \/ Tick]_vars

\* The steps the environment owes: timers fire, animations finish, requests
\* and play() promises settle.
Progress ==
    \/ \E c \in calls, r \in 1..Len(MockVariants) : F_MockResolve(c, r)
    \/ \E c \in calls, o \in Outcomes : F_BackendResolve(c, o)
    \/ \E c \in calls, o \in Outcomes : M_Resolve(c, o)
    \/ \E c \in calls : W_WalkDone(c)
    \/ \E c \in calls : W_MockResolve(c)
    \/ \E c \in calls, o \in Outcomes : W_FetchResolve(c, o)

FairSpec == Init /\ [][Converse]_vars /\ WF_vars(Progress)

\* What the user asks the mock responder: with one keyword, in capitals, with
\* a keyword of each product in either order, with none.
Queries ==
    {<<"hi">>, <<"HEADPHONE">>, <<"headset">>, <<"tracker">>,
     <<"headphone", "fitness">>, <<"FITNESS", "headphone">>}

\* Typed conversations with the mock responder of the futuristic widget.
MockInit == Init /\ widget = "futuristic" /\ apiUrl = NoUrl

MockChat ==
    \/ F_SetOpen
    \/ \E t \in Queries : F_InputChange(t)
    \/ F_SendTyped
    \/ \E c \in calls, r \in 1..Len(MockVariants) : F_MockResolve(c, r)
    \/ F_Adjust

MockSpec == MockInit /\ [][MockChat]_vars

\* Typed conversations with the futuristic widget across page loads, the
\* preferences changing and localStorage losing items in between.
Persist ==
    \/ F_SetOpen
    \/ F_Adjust
    \/ \E t \in Typed : F_InputChange(t)
    \/ F_SendTyped
    \/ \E c \in calls, r \in 1..Len(MockVariants) : F_MockResolve(c, r)
    \/ \E c \in calls, o \in Outcomes : F_BackendResolve(c, o)
    \/ F_Mount
    \/ \E k \in DOMAIN NoStorage : F_ItemRemoved(k)

PersistSpec == Init /\ [][Persist]_vars

(***************************************************************************)
(* Views used by the properties                                            *)
(***************************************************************************)
\* The conversation log of the mounted widget, as <<role, text, sub>> turns.
Log ==
    IF widget = "walking"
    THEN [i \in 1..Len(history) |->
             Msg(history[i].role, history[i].content, history[i].sub)]
    ELSE messages

\* The submissions whose user turn is in log, in log order.
RECURSIVE UserSubs(_)
UserSubs(log) ==
    IF log = <<>> THEN <<>>
    ELSE (IF Head(log).sender = "user" THEN <<Head(log).sub>> ELSE <<>>)
             \o UserSubs(Tail(log))

\* The product cards on display.
Shown == IF widget = "walking" THEN lastReply.recommended_products ELSE recommended

\* The gateway calls in flight (a walking-widget call is issued after the walk).
InFlight == {c \in calls : c.stage = "fetch"}

Pending(s) == \E c \in calls : c.sub = s

Apologies == {ApologyF, ApologyM, ApologyW}

\* This step appended one assistant turn carrying an apology.
ApologyAppended ==
    /\ Len(Log') = Len(Log) + 1
    /\ Log'[Len(Log')].sender = "assistant"
    /\ Log'[Len(Log')].text \in Apologies

\* This step is the Clear button of the futuristic widget and nothing else.
ClearStep ==
    /\ messages' = <<>> /\ ids' = <<>>
    /\ recommended' = <<>>
    /\ UNCHANGED <<widget, apiUrl, storage, mounts, now, voiceMode, sounding, alerts,
                   mockMode, speechSupported, history, input, composer,
                   typing, lastReply, videoUrl, open, muted, selectedMascot,
                   listening, sessions, calls, playing, outputs, nextSub, issued,
                   appended, blanks>>

\* In this step the play() promise p was rejected: it is gone and its clip
\* does not play.
Rejected(p) ==
    /\ p \in playing /\ p \notin playing'
    /\ Utter(p.sub, p.chan, <<>>) \notin sounding'

\* Speech synthesis holds an utterance for the reply to submission s.
Synthesized(snd, s) == \E u \in snd : u.chan = "tts" /\ u.sub = s

\* The tokens of text once lower-cased, whatever the case they were typed in.
Mentions(text, kw) ==
    \E i \in 1..Len(text) : text[i] = kw \/ (kw = "headphone" /\ text[i] = "HEADPHONE")
                                         \/ (kw = "fitness" /\ text[i] = "FITNESS")

\* The call c completes in this step of the futuristic widget in mock mode.
MockCompletes(c) ==
    /\ widget = "futuristic" /\ mockMode
    /\ c \in calls /\ c \notin calls'

(***************************************************************************)
(* Properties                                                              *)
(***************************************************************************)

\* C1 (as claimed): under submissions and reply resolutions the user turns of
\* the log stay, in order, and each submission adds its own user turn at the
\* end; so the user turns are those of all submissions, in initiation order.
C1_UserTurnsInInitiationOrder ==
    [][(nextSub' # nextSub \/ calls' # calls) =>
          UserSubs(Log') =
              UserSubs(Log) \o (IF nextSub' # nextSub THEN <<nextSub>> ELSE <<>>)]_vars

C3_HistoryExtendedByUserTurn ==
    [][(widget = "walking" /\ nextSub' # nextSub) =>
          /\ Len(history') = Len(history) + 1
          /\ IsPrefix(history, history')
          /\ history'[Len(history')].role = "user"]_vars

\* C4 (as claimed): a blank submission changes no state at all (blanks only
\* counts such submissions, and sessions is the recognizer's own state).
C4_BlankSubmissionChangesNothing ==
    [][blanks' # blanks =>
          UNCHANGED <<widget, apiUrl, storage, mounts, now, ids, voiceMode, sounding, alerts,
                      mockMode, speechSupported, messages, history, input,
                      composer, typing, recommended, lastReply, videoUrl, open,
                      muted, selectedMascot, listening, calls, playing, outputs,
                      nextSub, issued, appended>>]_vars

\* C4 (amended): a blank submission appends no turn, issues no gateway call and
\* changes no state other than the composer text: the futuristic widget writes
\* a blank recognized transcript into its input field, and the walking widget
\* empties its composer on Enter or Send.
C4_BlankSubmissionNoTurnNoCall ==
    [][blanks' # blanks =>
          /\ UNCHANGED <<widget, apiUrl, storage, mounts, now, ids, voiceMode, sounding, alerts,
                         mockMode, speechSupported, messages, history,
                         typing, recommended, lastReply, videoUrl, open, muted,
                         selectedMascot, listening, calls, playing, outputs,
                         nextSub, issued, appended>>
          /\ input' = input \/ (widget = "futuristic" /\ Blank(input'))
          /\ composer' = composer \/ (widget = "walking" /\ composer' = <<>>)]_vars

\* C4 witness: a blank transcript was handled after a real submission, and it
\* sits in the input field of the futuristic widget.
C4_BlankTranscriptInInput ==
    /\ widget = "futuristic"
    /\ blanks > 0
    /\ nextSub > 1
    /\ input # <<>> /\ Blank(input)

\* The call of submission s has been processed: one call, one assistant turn.
Answered(s) == issued[s] = 1 /\ appended[s] = 1 /\ ~Pending(s)

C6_ApologyLeavesNoRecommendation ==
    [][(~mockMode /\ ApologyAppended) => (Shown' = <<>> /\ typing' = FALSE)]_vars

\* C7: in the futuristic and minimal widgets the typing flag is true when a
\* gateway call has just been issued, false when a call has just completed, and
\* false whenever no call is in flight.
C7_TypingFollowsCalls ==
    [][(widget = "futuristic" \/ widget = "minimal") =>
          /\ (issued' # issued => typing' = TRUE)
          /\ (appended' # appended => typing' = FALSE)
          /\ (InFlight' = {} => typing' = FALSE)]_vars

\* C7 witness: a call failed, no call is in flight, and the flag is off.
C7_IdleAfterFailure ==
    /\ widget \in {"futuristic", "minimal"}
    /\ calls = {}
    /\ ~typing
    /\ \E i \in 1..Len(messages) : messages[i].text \in Apologies

\* C8 (as claimed): at most one gateway call is in flight at any time.
C8_AtMostOneCallInFlight == Cardinality(InFlight) <= 1

\* C9 (as claimed): a submission empties the displayed recommended list at
\* once, and every card on display comes from the reply to the latest submission.
C9_NoStaleRecommendations ==
    [][/\ nextSub' # nextSub => Shown' = <<>>
       /\ \A i \in 1..Len(Shown') : Shown'[i].from = nextSub' - 1]_vars

C13_OneChannelPerReply ==
    widget = "futuristic" =>
        \A s \in Subs :
            Cardinality({u.chan : u \in {v \in sounding : v.sub = s}}
                            \cup {p.chan : p \in {q \in playing : q.sub = s}}) <= 1

\* C14 (as claimed): when the reply to a submission is processed while muted is
\* true, no play() is started for it and nothing of it is handed to speech
\* synthesis (the video element of the futuristic widget, which carries the
\* muted attribute, is not counted).
C14_NothingStartedWhenMuted ==
    [][\A s \in Subs :
          (appended'[s] # appended[s] /\ muted) =>
             /\ \A p \in playing' : p.sub # s
             /\ \A u \in sounding' : u.sub = s => u.chan = "video"]_vars

\* C15 (as claimed): the step that turns muted on stops the audio clips and
\* the synthesized speech playing or queued: of what was started, only video
\* (whose element carries the muted attribute) is left.
C15_MuteStopsOutput ==
    [][(~muted /\ muted') => \A u \in sounding' : u.chan = "video"]_vars

\* C16 (as claimed): the step that processes the reply to a submission and
\* starts a clip or an utterance for it leaves no audio clip and no synthesized
\* utterance of an earlier reply playing or queued.
C16_NewReplyHaltsPrevious ==
    [][\A s \in Subs :
          (/\ appended'[s] # appended[s]
           /\ (\E p \in playing' : p.sub = s) \/ Synthesized(sounding', s)) =>
             \A u \in sounding' : u.sub # s => u.chan = "video"]_vars

\* C17 (as claimed): in the futuristic widget a recognition session is started
\* only when no earlier session is still there (started and not yet ended).
C17_NoSecondSession ==
    [][(widget = "futuristic" /\ Len(sessions') > Len(sessions)) =>
          sessions = <<>>]_vars

\* C18 (as claimed): a stop request leaves the widget not listening, and a
\* session on which stop() was called makes no submission afterwards: the step
\* in which it reports (a result or an error) submits nothing.
C18_StoppedSessionSubmitsNothing ==
    [][/\ (listening /\ sessions' # sessions /\ Len(sessions') = Len(sessions)
              /\ \E i \in 1..Len(sessions) :
                     sessions[i].st = "active" /\ sessions'[i].st = "stopped")
          => ~listening'
       /\ \A i \in 1..Len(sessions) :
             (/\ Len(sessions') = Len(sessions)
              /\ sessions[i].st = "stopped" /\ sessions'[i].st = "done")
                 => nextSub' = nextSub]_vars

\* C19: on a host without speech recognition the widget never listens and
\* never has a recognition session, and the step that raises the alert of a
\* start request raises one alert and changes nothing else.
C19_UnsupportedOnlyAlerts ==
    [][~speechSupported =>
          /\ ~listening' /\ sessions' = <<>>
          /\ alerts' # alerts =>
                /\ alerts' = alerts + 1
                /\ UNCHANGED <<widget, apiUrl, storage, mounts, now, ids, mockMode, speechSupported, messages,
                               history, input, composer, typing, recommended,
                               lastReply, videoUrl, open, muted, selectedMascot,
                               listening, sessions, calls, playing, outputs,
                               nextSub, issued, appended, blanks, voiceMode,
                               sounding>>]_vars

\* C19 witness: without speech recognition, a start request made in the middle
\* of a conversation has raised the alert.
C19_AlertedWhileCallPending ==
    /\ ~speechSupported
    /\ alerts = 1
    /\ calls # {}
    /\ ~listening /\ sessions = <<>>

\* C20 (as claimed): the gateway mode never changes, and the widget is in mock
\* mode exactly when no endpoint url is configured.
C20_MockIffNoEndpoint ==
    [][/\ mockMode' = mockMode
       /\ mockMode <=> apiUrl = NoUrl]_vars

\* C21: in mock mode of the futuristic widget, the reply to a message whose
\* lower-cased text contains "headphone", whatever else it contains, sets the
\* recommended list to exactly one card, "Premium Wireless Headphones" at
\* "$129.99".
C21_HeadphoneRecommended ==
    [][\A c \in calls :
          (MockCompletes(c) /\ Mentions(c.message, "headphone")) =>
             /\ Len(recommended') = 1
             /\ recommended'[1].title = "Premium Wireless Headphones"
             /\ recommended'[1].price = "$129.99"]_vars

\* C21 witness: a message with "fitness" before "headphone" was answered and
\* the one card shown is the headphones.
C21_HeadphoneBeatsFitness ==
    /\ widget = "futuristic" /\ mockMode /\ calls = {}
    /\ Len(messages) >= 2
    /\ messages[Len(messages) - 1].sender = "user"
    /\ messages[Len(messages) - 1].text = <<"FITNESS", "headphone">>
    /\ messages[Len(messages)].sender = "assistant"
    /\ Len(recommended) = 1
    /\ recommended[1].title = "Premium Wireless Headphones"

\* C22: in mock mode of the futuristic widget, the reply to a message with none
\* of the keywords headphone, headset, fitness, tracker is an assistant turn
\* whose text is one of the three filler replies, whichever index is drawn, and
\* the call ends as a reply: no apology turn, the typing flag off.
C22_FillerReply ==
    [][\A c \in calls :
          (MockCompletes(c)
              /\ \A kw \in {"headphone", "headset", "fitness", "tracker"} :
                     ~Mentions(c.message, kw)) =>
             /\ Len(messages') = Len(messages) + 1
             /\ messages'[Len(messages')].sender = "assistant"
             /\ messages'[Len(messages')].sub = c.sub
             /\ \E r \in 1..3 : messages'[Len(messages')].text = MockVariants[r]
             /\ messages'[Len(messages')].text \notin Apologies
             /\ ~typing']_vars

\* C22 witness: two messages without keyword were answered, by the third and by
\* the first filler reply.
C22_TwoFillers ==
    /\ widget = "futuristic" /\ mockMode /\ calls = {}
    /\ \E i, j \in 1..Len(messages) :
           /\ i < j
           /\ messages[i].sender = "assistant" /\ messages[i].text = MockVariants[3]
           /\ messages[j].sender = "assistant" /\ messages[j].text = MockVariants[1]

\* C23: a step that changes the selected mascot, the mute flag or whether the
\* widget is open leaves the conversation log as it is, and the gateway calls
\* too: none is dropped, none is issued, no submission is made.
C23_PreferencesLeaveLog ==
    [][(selectedMascot' # selectedMascot \/ muted' # muted \/ open' # open) =>
          UNCHANGED <<messages, history, calls, issued, appended, nextSub>>]_vars

\* C23 witness: in the walking widget, which mounts closed, unmuted and with
\* the first mascot, a call is in flight after the widget was closed and muted
\* and another mascot was chosen.
C23_AdjustedWhileCallInFlight ==
    /\ widget = "walking"
    /\ ~open /\ muted /\ selectedMascot = Mascots[2]
    /\ InFlight # {}
    /\ Len(history) = 1

\* C24: in the futuristic widget (a) a mount takes open, muted and the mascot
\* from the stored items, and the defaults (open, not muted, the first mascot)
\* for the items that are not there; (b) a step that changes one of the three
\* leaves its new value in the store; (c) an item in the store always is the
\* current value, so that a mount restores the three values whose items are
\* still there.
C24_PreferencesPersist ==
    /\ [](widget = "futuristic" =>
              /\ storage.open \in {NoItem, FlagItem(open)}
              /\ storage.muted \in {NoItem, FlagItem(muted)}
              /\ storage.mascot \in {NoItem, selectedMascot})
    /\ [][/\ open' # open => storage'.open = (IF open' THEN "true" ELSE "false")
          /\ muted' # muted => storage'.muted = (IF muted' THEN "true" ELSE "false")
          /\ selectedMascot' # selectedMascot => storage'.mascot = selectedMascot'
          /\ mounts' # mounts =>
                /\ open' = (IF storage.open = NoItem THEN TRUE ELSE open)
                /\ muted' = (IF storage.muted = NoItem THEN FALSE ELSE muted)
                /\ selectedMascot' =
                       (IF storage.mascot = NoItem THEN Mascots[1] ELSE selectedMascot)]_vars

\* C24 witness: the widget was mounted again after changes; it came back
\* closed, as it had been left, and, its "avatar.muted" item having been lost,
\* unmuted; the mascot chosen since then is in the store.
C24_RestoredAfterRemount ==
    /\ widget = "futuristic"
    /\ mounts = 2
    /\ ~open /\ ~muted /\ selectedMascot = Mascots[2]
    /\ storage.open = "false" /\ storage.mascot = Mascots[2]
    /\ Len(messages) > 1

\* C25 (as claimed): the history in the payload of a live gateway call is the
\* conversation log as it stands when the call is issued, the user turn of
\* that submission included, as {role, content} pairs in log order.
C25_HistoryIsLogAtIssue ==
    [][\A s \in Subs :
          (~mockMode /\ issued'[s] # issued[s]) =>
             \A c \in calls' : c.sub = s => c.history = ToHistory(Log')]_vars

\* C26 (as claimed): the turns of the message log have pairwise distinct ids,
\* however close in time they were appended.
C26_DistinctIds ==
    (widget \in {"futuristic", "minimal"}) =>
        /\ Len(ids) = Len(messages)
        /\ \A i, j \in 1..Len(ids) : i # j => ids[i] # ids[j]

\* C27 (as claimed): every turn of the conversation log has a text that is
\* not empty.
C27_NoEmptyTurn == \A i \in 1..Len(Log) : Log[i].text # <<>>

\* C28 (as claimed): in the futuristic and minimal widgets the typing flag is
\* on in every state in which a gateway call is in flight.
C28_TypingWhileInFlight ==
    (widget \in {"futuristic", "minimal"} /\ InFlight # {}) => typing

\* C29 (as claimed): when no submission is waiting for its reply, the reply
\* data on display (the product cards; lastReply in the walking widget) comes
\* from the reply to the submission made last.
C29_ShownFromLatest ==
    (calls = {} /\ nextSub > 1) =>
        IF widget = "walking" THEN lastReply.from = nextSub - 1
        ELSE \A i \in 1..Len(recommended) : recommended[i].from = nextSub - 1

\* C30 (as claimed): the step that processes the reply to a submission leaves
\* on display the avatar video of that reply or none, and none at all when the
\* reply is the apology for a failed call.
C30_VideoOfProcessedReply ==
    [][\A s \in Subs :
          appended'[s] # appended[s] =>
             IF widget = "walking" THEN lastReply'.from = s
             ELSE /\ videoUrl' \in {0, s}
                  /\ ApologyAppended => videoUrl' = 0]_vars

====
